---- MODULE Spec2Model ----
(***************************************************************************)
(* The wave scheduler of sched/sched.go: Sched.Run drives a DAG of jobs to *)
(* completion in waves, one goroutine per ready job, joined at a barrier,  *)
(* followed by sequential fail-count and in-degree bookkeeping.            *)
(* And CmdExec of task/exec/util.go: a child process, its two output pipes *)
(* and the parent that reads them and waits for the child.                 *)
(***************************************************************************)
EXTENDS Integers, FiniteSets, Sequences, TLC

\* ---------------------------------------------------------------------------
\* Values
\* ---------------------------------------------------------------------------

\* dag.JobStatus
NotStarted == "NotStarted"
Started == "Started"
Finished == "Finished"
Failed == "Failed"
JobStatus == {NotStarted, Started, Finished, Failed}

\* dag.JobType (the types a DAG of the model uses)
DummyJob == "Dummy"
ScriptJob == "Script"
HadoopJob == "Hadoop"
JobType == {DummyJob, ScriptJob, HadoopJob}

\* Largest config.MaxRetry the model draws
MaxRetryBound == 2

\* CmdExec: the largest exit code a child exits with, the number of lines a pipe
\* holds before a write blocks, and the most lines a child writes
MaxExitCode == 2
PipeCap == 2
MaxWrites == 4

\* syscall.WaitStatus of a child that has ended: it exited with a code, or a
\* signal killed it
WaitStatuses ==
    [kind : {"exited"}, code : 0..MaxExitCode] \cup [kind : {"signaled"}, code : {9}]
NoStatus == [kind |-> "none", code |-> 0]

\* Go error values: nil, and the errors CmdExec can return
Nil == [kind |-> "nil"]
StartError == [kind |-> "start"]
WaitError == [kind |-> "wait"]
NoExitStatusError == [kind |-> "get exit status fail"]
NoRet == [code |-> 0, err |-> [kind |-> "none"]]

\* The DAG topologies the model draws: a chain A -> B -> C and a join
\* {A, B} -> C (two roots that share a wave, one successor with two in-edges).
Chain == [Jobs |-> {"A", "B", "C"}, Post |-> {<<"A", "B">>, <<"B", "C">>}]
Join == [Jobs |-> {"A", "B", "C"}, Post |-> {<<"A", "C">>, <<"B", "C">>}]
Topologies == {Chain, Join}

\* Two jobs joined by an edge, and two jobs without an edge (both are roots
\* and share every wave): the topologies drawn for a run on an arbitrary
\* persisted store
Pair == [Jobs |-> {"A", "B"}, Post |-> {<<"A", "B">>}]
Roots == [Jobs |-> {"A", "B"}, Post |-> {}]
RunTopologies == {Pair, Roots}

\* The diamond A -> {B, C} -> D
Diamond ==
    [Jobs |-> {"A", "B", "C", "D"},
     Post |-> {<<"A", "B">>, <<"A", "C">>, <<"B", "D">>, <<"C", "D">>}]

VARIABLES
    Jobs,           \* d.Jobs: the job names of the DAG
    Post,           \* job.Post of every job, as the set of edges <<u, v>>
    Relations,      \* d.Relations[u][v].NonStrict, per edge
    Type,           \* job.Type
    MaxRetry,       \* config.MaxRetry
    Status,         \* job.Status (in memory)
    InDegrees,      \* d.InDegrees
    Fails,          \* tracker.Fails: a map, absent keys read as 0
    Statuses,       \* the tracker's persistent store (absent = NotStarted)
    JobReport,      \* d.Builtins' JobReport: the last published snapshot
    queue,          \* the run queue of the current wave
    pc,             \* position of each job's wave worker
    snap,           \* a worker's local result of tracker.ToJson()
    mainpc,         \* position of Sched.Run: "init", "wave", "done", "panic"
    result,         \* what Sched.Run returned: "none", "nil", "error"
    startStatuses,  \* history: the persisted statuses when this run began
    prevAllFinished,\* history: the previous run ended with every job Finished
    wave,           \* history: number of waves dispatched in this run
    attempts,       \* history: number of times each job was dispatched
    ran,            \* history: what the job's last Executor.Run returned
    resolveErr,     \* history: a ResolveJob call of this run returned an error
    resolved,       \* history: what the job's ResolveJob returned in this wave
    waveStart,      \* history: the persisted statuses when this wave began
    decs,           \* history: per edge, the decrements of InDegrees in this run
    cmdpc,          \* CmdExec: "none", "start", "readerr", "readout", "wait", "returned"
    childpc,        \* the child: "none", "running", "exited", "reaped"
    prog,           \* the writes the child has still to do, each to "out" or "err"
    outbuf,         \* lines in the stdout pipe
    errbuf,         \* lines in the stderr pipe
    wstatus,        \* the child's wait status once it has exited
    ret             \* what CmdExec returned: [code, err]

config == <<Jobs, Post, Relations, Type, MaxRetry>>
hist == <<startStatuses, prevAllFinished, wave, attempts, ran, resolveErr, resolved, waveStart,
          decs>>
vars == <<Jobs, Post, Relations, Type, MaxRetry, Status, InDegrees, Fails,
          Statuses, JobReport, queue, pc, snap, mainpc, result,
          startStatuses, prevAllFinished, wave, attempts, ran, resolveErr,
          resolved, waveStart, decs,
          cmdpc, childpc, prog, outbuf, errbuf, wstatus, ret>>
proc == <<cmdpc, childpc, prog, outbuf, errbuf, wstatus, ret>>

\* ---------------------------------------------------------------------------
\* Helpers
\* ---------------------------------------------------------------------------

\* NewSched: the executor registry with config.Hadoop, config.Hive and
\* config.Odps all off
Registered == {DummyJob, ScriptJob}

\* Reading a Go map[string]int at a key: the zero value when absent
FailsOf(F, j) == IF j \in DOMAIN F THEN F[j] ELSE 0

\* The in-degree table of a freshly built DAG: the count of incoming edges
InitInDegrees(J, E) == [v \in J |-> Cardinality({e \in E : e[2] = v})]

\* Tracker.GetStatus: the persisted status, NotStarted if none
GetStatus(S, j) == S[j]

\* Tracker.SetStatus: write-through of job.Status
SetStatus(S, j, s) == [S EXCEPT ![j] = s]

\* Tracker.ToJson: a snapshot of the persisted statuses
ToJsonOf(S) == S

\* The status an executor leaves in the job when Run returns nil
ExecFinished == Finished

\* All orders in which a range loop can visit the jobs of a queue
Orders(Q) ==
    {f \in [1..Cardinality(Q) -> Q] : \A a, b \in 1..Cardinality(Q) : a # b => f[a] # f[b]}

\* The write programs of a child: every sequence of at most MaxWrites lines,
\* each to stdout or to stderr
Programs == UNION {[1..n -> {"out", "err"}] : n \in 0..MaxWrites}

\* No CmdExec call is in progress
NoCmd ==
    /\ cmdpc = "none" /\ childpc = "none" /\ prog = <<>>
    /\ outbuf = 0 /\ errbuf = 0 /\ wstatus = NoStatus /\ ret = NoRet

\* ---------------------------------------------------------------------------
\* Sched: the sequential helpers
\* ---------------------------------------------------------------------------

\* checkDAG that accepts every DAG
checkDAG_AlwaysOk == TRUE

\* Sched.checkDAG: TRUE when every job's type has a registered executor
checkDAG == \A j \in Jobs : Type[j] \in Registered

\* genRunQueue with <= in place of < on the fail count
genRunQueue_OffByOne(In, St, F) ==
    {j \in Jobs : In[j] = 0 /\ St[j] # Finished /\ St[j] # Started /\ FailsOf(F, j) <= MaxRetry}

\* Sched.genRunQueue (every key of InDegrees is a job, so its panic is not
\* reachable)
genRunQueue(In, St, F) ==
    {j \in Jobs : In[j] = 0 /\ St[j] # Finished /\ St[j] # Started /\ FailsOf(F, j) < MaxRetry}

\* updateFailCount without the delete on Finished
updateFailCount_NoDelete(F, St, j) ==
    IF St[j] = Failed
      THEN IF j \notin DOMAIN F
             THEN [k \in DOMAIN F \cup {j} |-> IF k = j THEN 1 ELSE F[k]]
             ELSE [F EXCEPT ![j] = F[j] + 1]
      ELSE F

\* updateFailCount that stores 1 on every failure instead of n + 1
updateFailCount_AlwaysOne(F, St, j) ==
    CASE St[j] = Failed -> [k \in DOMAIN F \cup {j} |-> IF k = j THEN 1 ELSE F[k]]
      [] St[j] = Finished ->
           IF j \in DOMAIN F THEN [k \in DOMAIN F \ {j} |-> F[k]] ELSE F
      [] OTHER -> F

\* Sched.updateFailCount
updateFailCount(F, St, j) ==
    CASE St[j] = Failed ->
           IF j \notin DOMAIN F
             THEN [k \in DOMAIN F \cup {j} |-> IF k = j THEN 1 ELSE F[k]]
             ELSE [F EXCEPT ![j] = F[j] + 1]
      [] St[j] = Finished ->
           IF j \in DOMAIN F THEN [k \in DOMAIN F \ {j} |-> F[k]] ELSE F
      [] OTHER -> F

\* Decrements without the status test: any job of the wave releases its successors
Decrements_AnyStatus(In, F, St, j, post) == In[post] # 0

\* Decrements without the retry-exhaustion test on a non-strict edge
Decrements_NoExhaust(In, F, St, j, post) ==
    /\ In[post] # 0
    /\ \/ St[j] = Finished
       \/ Relations[<<j, post>>] /\ St[j] = Failed

\* Decrements without the NonStrict test: every edge is treated as non-strict
Decrements_IgnoreStrict(In, F, St, j, post) ==
    /\ In[post] # 0
    /\ \/ St[j] = Finished
       \/ St[j] = Failed /\ FailsOf(F, j) >= MaxRetry

\* Decrements on every failure of a non-strict predecessor, and without the
\* test that the in-degree is not yet 0
Decrements_EveryFailure(In, F, St, j, post) ==
    \/ St[j] = Finished
    \/ Relations[<<j, post>>] /\ St[j] = Failed

\* The condition under which updateDependences decrements InDegrees[post]
Decrements(In, F, St, j, post) ==
    /\ In[post] # 0
    /\ \/ St[j] = Finished
       \/ /\ Relations[<<j, post>>]
          /\ St[j] = Failed
          /\ FailsOf(F, j) >= MaxRetry

\* Sched.updateDependences
updateDependences(In, F, St, j) ==
    [v \in DOMAIN In |->
        IF <<j, v>> \in Post /\ Decrements(In, F, St, j, v) THEN In[v] - 1 ELSE In[v]]

\* The post-wave loop of Sched.Run over the queue in the order `order`:
\* updateFailCount then updateDependences for each job. Yields <<Fails, InDegrees>>.
RECURSIVE Bookkeep(_, _, _, _, _)
Bookkeep(order, i, F, In, St) ==
    IF i > Len(order) THEN <<F, In>>
    ELSE LET j == order[i]
             F2 == updateFailCount(F, St, j)
             In2 == updateDependences(In, F2, St, j)
         IN Bookkeep(order, i + 1, F2, In2, St)

\* History of the same loop: D with one more decrement counted on every edge
\* j -> v whose InDegrees[v] the call updateDependences(j) lowered
RECURSIVE CountDecs(_, _, _, _, _, _)
CountDecs(order, i, F, In, St, D) ==
    IF i > Len(order) THEN D
    ELSE LET j == order[i]
             F2 == updateFailCount(F, St, j)
             In2 == updateDependences(In, F2, St, j)
             D2 == [e \in DOMAIN D |->
                      IF e[1] = j /\ In2[e[2]] # In[e[2]] THEN D[e] + 1 ELSE D[e]]
         IN CountDecs(order, i + 1, F2, In2, St, D2)

\* The return value of Sched.Run after the wave loop
RunResult(F) == IF DOMAIN F = {} THEN "nil" ELSE "error"

\* ---------------------------------------------------------------------------
\* Initial state: a fresh process on a fresh tracker store
\* ---------------------------------------------------------------------------

Fresh(J) == [j \in J |-> NotStarted]
Idle(J) == [j \in J |-> "idle"]

Init ==
    /\ \E t \in Topologies :
         /\ Jobs = t.Jobs
         /\ Post = t.Post
         /\ Relations \in [t.Post -> BOOLEAN]
         /\ Type \in [t.Jobs -> JobType]
    /\ MaxRetry \in 0..MaxRetryBound
    /\ Status = Fresh(Jobs)
    /\ InDegrees = InitInDegrees(Jobs, Post)
    /\ Fails = <<>>
    /\ Statuses = Fresh(Jobs)
    /\ JobReport = Fresh(Jobs)
    /\ queue = {}
    /\ pc = Idle(Jobs)
    /\ snap = [j \in Jobs |-> Fresh(Jobs)]
    /\ mainpc = "init"
    /\ result = "none"
    /\ startStatuses = Fresh(Jobs)
    /\ prevAllFinished = FALSE
    /\ wave = 0
    /\ attempts = [j \in Jobs |-> 0]
    /\ ran = [j \in Jobs |-> "none"]
    /\ resolveErr = FALSE
    /\ resolved = [j \in Jobs |-> "none"]
    /\ waveStart = Fresh(Jobs)
    /\ decs = [e \in Post |-> 0]
    /\ NoCmd

\* The same on the diamond, of Script jobs joined by strict edges, with one
\* attempt per job
InitDiamond ==
    /\ Jobs = Diamond.Jobs
    /\ Post = Diamond.Post
    /\ Relations = [e \in Diamond.Post |-> FALSE]
    /\ Type = [j \in Diamond.Jobs |-> ScriptJob]
    /\ MaxRetry = 1
    /\ Status = Fresh(Jobs)
    /\ InDegrees = InitInDegrees(Jobs, Post)
    /\ Fails = <<>>
    /\ Statuses = Fresh(Jobs)
    /\ JobReport = Fresh(Jobs)
    /\ queue = {}
    /\ pc = Idle(Jobs)
    /\ snap = [j \in Jobs |-> Fresh(Jobs)]
    /\ mainpc = "init"
    /\ result = "none"
    /\ startStatuses = Fresh(Jobs)
    /\ prevAllFinished = FALSE
    /\ wave = 0
    /\ attempts = [j \in Jobs |-> 0]
    /\ ran = [j \in Jobs |-> "none"]
    /\ resolveErr = FALSE
    /\ resolved = [j \in Jobs |-> "none"]
    /\ waveStart = Fresh(Jobs)
    /\ decs = [e \in Post |-> 0]
    /\ NoCmd

\* A process started on a tracker store that holds any status for any job
InitRun ==
    /\ \E t \in RunTopologies :
         /\ Jobs = t.Jobs
         /\ Post = t.Post
         /\ Relations \in [t.Post -> BOOLEAN]
         /\ Type \in [t.Jobs -> JobType]
    /\ MaxRetry \in 0..MaxRetryBound
    /\ Status = Fresh(Jobs)
    /\ InDegrees = InitInDegrees(Jobs, Post)
    /\ Fails = <<>>
    /\ Statuses \in [Jobs -> JobStatus]
    /\ JobReport = Fresh(Jobs)
    /\ queue = {}
    /\ pc = Idle(Jobs)
    /\ snap = [j \in Jobs |-> Fresh(Jobs)]
    /\ mainpc = "init"
    /\ result = "none"
    /\ startStatuses = Statuses
    /\ prevAllFinished = FALSE
    /\ wave = 0
    /\ attempts = [j \in Jobs |-> 0]
    /\ ran = [j \in Jobs |-> "none"]
    /\ resolveErr = FALSE
    /\ resolved = [j \in Jobs |-> "none"]
    /\ waveStart = Statuses
    /\ decs = [e \in Post |-> 0]
    /\ NoCmd

\* ---------------------------------------------------------------------------
\* Sched.Run: the main goroutine
\* ---------------------------------------------------------------------------

\* Launch the goroutines of a non-empty queue, or leave the loop and return
Dispatch(Q, F) ==
    /\ queue' = Q
    /\ resolved' = [j \in Jobs |-> "none"]
    /\ waveStart' = Statuses
    /\ IF Q = {}
         THEN /\ mainpc' = "done"
              /\ result' = RunResult(F)
              /\ pc' = Idle(Jobs)
              /\ UNCHANGED <<wave, attempts>>
         ELSE /\ mainpc' = "wave"
              /\ result' = "none"
              /\ pc' = [j \in Jobs |-> IF j \in Q THEN "resolve" ELSE "idle"]
              /\ wave' = wave + 1
              /\ attempts' = [j \in Jobs |-> IF j \in Q THEN attempts[j] + 1 ELSE attempts[j]]

\* Sched.Run up to the first wave: checkDAG (on a miss Run ends with an error),
\* then the first genRunQueue
RunBegin ==
    /\ mainpc = "init"
    /\ IF ~checkDAG
         THEN /\ mainpc' = "done"
              /\ result' = "error"
              /\ UNCHANGED <<queue, pc, wave, attempts, resolved, waveStart>>
         ELSE Dispatch(genRunQueue(InDegrees, Status, Fails), Fails)
    /\ UNCHANGED <<config, proc, Status, InDegrees, Fails, Statuses, JobReport, snap,
                   startStatuses, prevAllFinished, ran, resolveErr, decs>>

\* wg.Wait returns; the bookkeeping loop; the next genRunQueue
PostWave ==
    /\ mainpc = "wave"
    /\ \A j \in queue : pc[j] = "done"
    /\ \E order \in Orders(queue) :
         LET r == Bookkeep(order, 1, Fails, InDegrees, Status) IN
           /\ Fails' = r[1]
           /\ InDegrees' = r[2]
           /\ Dispatch(genRunQueue(r[2], Status, r[1]), r[1])
           /\ decs' = CountDecs(order, 1, Fails, InDegrees, Status, decs)
    /\ UNCHANGED <<config, proc, Status, Statuses, JobReport, snap, startStatuses,
                   prevAllFinished, ran, resolveErr>>

\* ---------------------------------------------------------------------------
\* Sched.runQueue: one goroutine per job of the queue
\* ---------------------------------------------------------------------------

\* d.Builtins.SetBizdate(config.Bizdate) rewrites the same configured value and
\* is left out. d.ResolveJob(job): succeeds or fails; a Dummy job that resolves
\* is Finished
Resolve(j) ==
    /\ mainpc = "wave" /\ pc[j] = "resolve"
    /\ \E ok \in BOOLEAN :
         /\ resolveErr' = (resolveErr \/ ~ok)
         /\ resolved' = [resolved EXCEPT ![j] = IF ok THEN "ok" ELSE "error"]
         /\ IF ~ok
              THEN /\ pc' = [pc EXCEPT ![j] = "failset"]
                   /\ UNCHANGED Status
              ELSE IF Type[j] = DummyJob
                THEN /\ Status' = [Status EXCEPT ![j] = Finished]
                     /\ pc' = [pc EXCEPT ![j] = "done"]
                ELSE /\ pc' = [pc EXCEPT ![j] = "check"]
                     /\ UNCHANGED Status
    /\ UNCHANGED <<config, proc, InDegrees, Fails, Statuses, JobReport, queue, snap,
                   mainpc, result, startStatuses, prevAllFinished, wave, attempts, ran,
                   waveStart, decs>>

\* ResolveFailed without the SetStatus call
ResolveFailed_NoPersist(j) ==
    /\ mainpc = "wave" /\ pc[j] = "failset"
    /\ Status' = [Status EXCEPT ![j] = Failed]
    /\ pc' = [pc EXCEPT ![j] = "json2"]
    /\ UNCHANGED <<config, proc, InDegrees, Fails, Statuses, JobReport, queue, snap, mainpc,
                   result, hist>>

\* ResolveJob failed: job.Status = Failed; tracker.SetStatus(job)
ResolveFailed(j) ==
    /\ mainpc = "wave" /\ pc[j] = "failset"
    /\ Status' = [Status EXCEPT ![j] = Failed]
    /\ Statuses' = SetStatus(Statuses, j, Failed)
    /\ pc' = [pc EXCEPT ![j] = "json2"]
    /\ UNCHANGED <<config, proc, InDegrees, Fails, JobReport, queue, snap, mainpc, result, hist>>

\* Skips without the Finished case
Skips_OnlyStarted(s) == s = Started

\* Whether a worker returns at once on the persisted status it read
Skips(s) == s = Finished \/ s = Started

\* getExec, then tracker.GetStatus: on an error of either the goroutine
\* panics, which ends the process (getExec cannot miss after checkDAG);
\* otherwise the skip switch, then job.Status = Started and SetStatus
CheckStatus(j) ==
    /\ mainpc = "wave" /\ pc[j] = "check"
    /\ \E err \in BOOLEAN :
         LET s == GetStatus(Statuses, j) IN
           IF Type[j] \notin Registered \/ err
             THEN /\ mainpc' = "panic"
                  /\ pc' = [pc EXCEPT ![j] = "panic"]
                  /\ UNCHANGED <<Status, Statuses>>
             ELSE /\ mainpc' = mainpc
                  /\ IF Skips(s)
                       THEN /\ Status' = [Status EXCEPT ![j] = s]
                            /\ pc' = [pc EXCEPT ![j] = "done"]
                            /\ UNCHANGED Statuses
                       ELSE /\ Status' = [Status EXCEPT ![j] = Started]
                            /\ Statuses' = SetStatus(Statuses, j, Started)
                            /\ pc' = [pc EXCEPT ![j] = "json1"]
    /\ UNCHANGED <<config, proc, InDegrees, Fails, JobReport, queue, snap, result, hist>>

\* this.tracker.ToJson(): the argument of SetJobReport is evaluated
ToJson(j) ==
    /\ mainpc = "wave" /\ pc[j] \in {"json1", "json2"}
    /\ snap' = [snap EXCEPT ![j] = ToJsonOf(Statuses)]
    /\ pc' = [pc EXCEPT ![j] = IF pc[j] = "json1" THEN "report1" ELSE "report2"]
    /\ UNCHANGED <<config, proc, Status, InDegrees, Fails, Statuses, JobReport, queue,
                   mainpc, result, hist>>

\* d.Builtins.SetJobReport(...)
SetJobReport(j) ==
    /\ mainpc = "wave" /\ pc[j] \in {"report1", "report2"}
    /\ JobReport' = snap[j]
    /\ snap' = [snap EXCEPT ![j] = Fresh(Jobs)]
    /\ pc' = [pc EXCEPT ![j] = IF pc[j] = "report1" THEN "exec" ELSE "done"]
    /\ UNCHANGED <<config, proc, Status, InDegrees, Fails, Statuses, queue, mainpc, result, hist>>

\* StatusAfterRun that takes every return of the executor for a success
StatusAfterRun_Swallow(err) == ExecFinished

\* StatusAfterRun without the error branch: a failed run is left as the executor
\* left it
StatusAfterRun_NoErrorBranch(err) == IF err THEN Started ELSE ExecFinished

\* job.Status after jexec.Run(job) returned, err telling whether it returned an error
StatusAfterRun(err) == IF err THEN Failed ELSE ExecFinished

\* jexec.Run(job) returns, and the error branch that follows it
RunExec(j) ==
    /\ mainpc = "wave" /\ pc[j] = "exec"
    /\ \E err \in BOOLEAN :
         /\ Status' = [Status EXCEPT ![j] = StatusAfterRun(err)]
         /\ ran' = [ran EXCEPT ![j] = IF err THEN "error" ELSE "nil"]
    /\ pc' = [pc EXCEPT ![j] = "persist"]
    /\ UNCHANGED <<config, proc, InDegrees, Fails, Statuses, JobReport, queue, snap, mainpc,
                   result, startStatuses, prevAllFinished, wave, attempts, resolveErr,
                   resolved, waveStart, decs>>

\* PersistedAfterRun that writes what the published JobReport says of the job
PersistedAfterRun_FromReport(j) == JobReport[j]

\* The status the worker writes to the tracker after the executor returned
PersistedAfterRun(j) == Status[j]

\* this.tracker.SetStatus(job) after the executor returned
Persist(j) ==
    /\ mainpc = "wave" /\ pc[j] = "persist"
    /\ Statuses' = SetStatus(Statuses, j, PersistedAfterRun(j))
    /\ pc' = [pc EXCEPT ![j] = "json2"]
    /\ UNCHANGED <<config, proc, Status, InDegrees, Fails, JobReport, queue, snap, mainpc,
                   result, hist>>

\* ---------------------------------------------------------------------------
\* The process ends (it returned, or it was killed) and is started again on
\* the same DAG and the same tracker store
\* ---------------------------------------------------------------------------

Restart ==
    /\ mainpc # "init"
    /\ Status' = Fresh(Jobs)
    /\ InDegrees' = InitInDegrees(Jobs, Post)
    /\ Fails' = <<>>
    /\ JobReport' = Fresh(Jobs)
    /\ queue' = {}
    /\ pc' = Idle(Jobs)
    /\ snap' = [j \in Jobs |-> Fresh(Jobs)]
    /\ mainpc' = "init"
    /\ result' = "none"
    /\ startStatuses' = Statuses
    /\ prevAllFinished' = (mainpc = "done" /\ \A j \in Jobs : Status[j] = Finished)
    /\ wave' = 0
    /\ attempts' = [j \in Jobs |-> 0]
    /\ ran' = [j \in Jobs |-> "none"]
    /\ resolveErr' = FALSE
    /\ resolved' = [j \in Jobs |-> "none"]
    /\ waveStart' = Statuses
    /\ decs' = [e \in Post |-> 0]
    /\ UNCHANGED <<config, proc, Statuses>>

Next ==
    \/ RunBegin
    \/ PostWave
    \/ \E j \in Jobs : Resolve(j)
    \/ \E j \in Jobs : ResolveFailed(j)
    \/ \E j \in Jobs : CheckStatus(j)
    \/ \E j \in Jobs : ToJson(j)
    \/ \E j \in Jobs : SetJobReport(j)
    \/ \E j \in Jobs : RunExec(j)
    \/ \E j \in Jobs : Persist(j)
    \/ Restart

Spec == Init /\ [][Next]_vars

\* The steps of one process: the main goroutine and the workers
NextRun ==
    \/ RunBegin
    \/ PostWave
    \/ \E j \in Jobs : Resolve(j)
    \/ \E j \in Jobs : ResolveFailed(j)
    \/ \E j \in Jobs : CheckStatus(j)
    \/ \E j \in Jobs : ToJson(j)
    \/ \E j \in Jobs : SetJobReport(j)
    \/ \E j \in Jobs : RunExec(j)
    \/ \E j \in Jobs : Persist(j)

\* One run of Sched.Run that is not killed, on any persisted store: every call
\* returns and the Go scheduler keeps running a goroutine that can run
SpecRun == InitRun /\ [][NextRun]_vars /\ WF_vars(NextRun)

\* The scheduler on the diamond
SpecDiamond == InitDiamond /\ [][Next]_vars

\* ---------------------------------------------------------------------------
\* CmdExec: the parent, the child process and the two pipes between them
\* ---------------------------------------------------------------------------

\* A CmdExec call is about to begin, for a child with any write program; the
\* scheduler is not part of this specification and holds an empty DAG
InitCmd ==
    /\ Jobs = {} /\ Post = {} /\ Relations = <<>> /\ Type = <<>>
    /\ MaxRetry = 0
    /\ Status = Fresh(Jobs)
    /\ InDegrees = InitInDegrees(Jobs, Post)
    /\ Fails = <<>>
    /\ Statuses = Fresh(Jobs)
    /\ JobReport = Fresh(Jobs)
    /\ queue = {}
    /\ pc = Idle(Jobs)
    /\ snap = [j \in Jobs |-> Fresh(Jobs)]
    /\ mainpc = "init"
    /\ result = "none"
    /\ startStatuses = Fresh(Jobs)
    /\ prevAllFinished = FALSE
    /\ wave = 0
    /\ attempts = [j \in Jobs |-> 0]
    /\ ran = [j \in Jobs |-> "none"]
    /\ resolveErr = FALSE
    /\ resolved = [j \in Jobs |-> "none"]
    /\ waveStart = Fresh(Jobs)
    /\ decs = [e \in Post |-> 0]
    /\ cmdpc = "start" /\ childpc = "none"
    /\ prog \in Programs
    /\ outbuf = 0 /\ errbuf = 0
    /\ wstatus = NoStatus
    /\ ret = NoRet

sched == <<Jobs, Post, Relations, Type, MaxRetry, Status, InDegrees, Fails,
           Statuses, JobReport, queue, pc, snap, mainpc, result, hist>>

\* cmd.StdoutPipe, cmd.StderrPipe, cmd.Start: on an error of any of them
\* CmdExec returns (0, err); otherwise the child runs and the parent starts
\* to read stderr
CmdStart ==
    /\ cmdpc = "start"
    /\ \E ok \in BOOLEAN :
         IF ok
           THEN /\ cmdpc' = "readerr"
                /\ childpc' = "running"
                /\ UNCHANGED ret
           ELSE /\ cmdpc' = "returned"
                /\ ret' = [code |-> 0, err |-> StartError]
                /\ UNCHANGED childpc
    /\ UNCHANGED <<sched, prog, outbuf, errbuf, wstatus>>

\* The child writes its next line; a write to a full pipe blocks
ChildWrite ==
    /\ childpc = "running" /\ prog # <<>>
    /\ \/ /\ Head(prog) = "out" /\ outbuf < PipeCap
          /\ outbuf' = outbuf + 1
          /\ UNCHANGED errbuf
       \/ /\ Head(prog) = "err" /\ errbuf < PipeCap
          /\ errbuf' = errbuf + 1
          /\ UNCHANGED outbuf
    /\ prog' = Tail(prog)
    /\ UNCHANGED <<sched, cmdpc, childpc, wstatus, ret>>

\* The child has written everything and ends, which closes its ends of the pipes
ChildExit ==
    /\ childpc = "running" /\ prog = <<>>
    /\ \E ws \in WaitStatuses : wstatus' = ws
    /\ childpc' = "exited"
    /\ UNCHANGED <<sched, cmdpc, prog, outbuf, errbuf, ret>>

\* errscanner.Scan(): takes a line of stderr, or sees EOF once the pipe is
\* empty and closed; it blocks on an empty pipe the child still holds open
ReadErr ==
    /\ cmdpc = "readerr"
    /\ IF errbuf > 0
         THEN /\ errbuf' = errbuf - 1
              /\ UNCHANGED cmdpc
         ELSE /\ childpc = "exited"
              /\ cmdpc' = "readout"
              /\ UNCHANGED errbuf
    /\ UNCHANGED <<sched, childpc, prog, outbuf, wstatus, ret>>

\* outscanner.Scan(): the same on stdout, after stderr reached EOF
ReadOut ==
    /\ cmdpc = "readout"
    /\ IF outbuf > 0
         THEN /\ outbuf' = outbuf - 1
              /\ UNCHANGED cmdpc
         ELSE /\ childpc = "exited"
              /\ cmdpc' = "wait"
              /\ UNCHANGED outbuf
    /\ UNCHANGED <<sched, childpc, prog, errbuf, wstatus, ret>>

\* syscall.WaitStatus.ExitStatus: the exit code, -1 if the child did not exit
ExitStatus(ws) == IF ws.kind = "exited" THEN ws.code ELSE -1

\* exiterr.Sys() is a syscall.WaitStatus on Unix and on Windows
SysIsWaitStatus == TRUE

\* CmdResult that reports every ended child as exit code 0
CmdResult_ZeroCode(ws, failed) ==
    IF failed THEN [code |-> 0, err |-> WaitError] ELSE [code |-> 0, err |-> Nil]

\* What CmdExec returns after cmd.Wait: `failed` tells whether Wait returned
\* an error that is not an *exec.ExitError; otherwise Wait returns nil for
\* exit code 0 and an *exec.ExitError for every other wait status
CmdResult(ws, failed) ==
    IF failed THEN [code |-> 0, err |-> WaitError]
    ELSE IF ws.kind = "exited" /\ ws.code = 0 THEN [code |-> 0, err |-> Nil]
    ELSE IF ~SysIsWaitStatus THEN [code |-> 0, err |-> NoExitStatusError]
    ELSE [code |-> ExitStatus(ws), err |-> Nil]

\* cmd.Wait() once the child has ended, and the return of CmdExec
CmdWait ==
    /\ cmdpc = "wait" /\ childpc = "exited"
    /\ \E failed \in BOOLEAN : ret' = CmdResult(wstatus, failed)
    /\ childpc' = "reaped"
    /\ cmdpc' = "returned"
    /\ UNCHANGED <<sched, prog, outbuf, errbuf, wstatus>>

NextCmd ==
    \/ CmdStart
    \/ ChildWrite
    \/ ChildExit
    \/ ReadErr
    \/ ReadOut
    \/ CmdWait

\* One call of CmdExec
SpecCmd == InitCmd /\ [][NextCmd]_vars

\* ---------------------------------------------------------------------------
\* Properties
\* ---------------------------------------------------------------------------

Strict(e) == e \in Post /\ ~Relations[e]
NonStrict(e) == e \in Post /\ Relations[e]
Exhausted(u) == Status[u] = Failed /\ FailsOf(Fails, u) >= MaxRetry

\* C1: for every strict edge u -> v, v is in a run queue, and its worker is at
\* the call of Executor.Run, only in states where u's status is Finished.
C1_StrictOrder ==
    \A e \in Post :
        Strict(e) /\ (e[2] \in queue \/ pc[e[2]] # "idle") => Status[e[1]] = Finished

\* A strict successor is about to be executed
C1_Witness ==
    \E e \in Post : Strict(e) /\ e[2] \in queue /\ pc[e[2]] = "exec"

\* C2 (first part): for every non-strict edge u -> v, v is in a run queue only
\* while u is Finished, or Failed with Fails[u] >= MaxRetry.
C2_NonStrictGate ==
    \A e \in Post :
        NonStrict(e) /\ (e[2] \in queue \/ pc[e[2]] # "idle")
            => Status[e[1]] = Finished \/ Exhausted(e[1])

\* A predecessor w of v that no longer blocks v, judged on the statuses and
\* the fail counts F
Satisfied(w, v, F) ==
    \/ Status[w] = Finished
    \/ Relations[<<w, v>>] /\ Status[w] = Failed /\ FailsOf(F, w) >= MaxRetry

\* C2 (second part): when the bookkeeping of wave k counts the MaxRetry-th
\* failure of u and every other predecessor of v is satisfied, v is in the
\* queue of wave k + 1.
C2_NextWave ==
    \A e \in Post :
        /\ NonStrict(e)
        /\ mainpc = "wave" /\ e[1] \in queue /\ Status[e[1]] = Failed
        /\ FailsOf(Fails, e[1]) + 1 = MaxRetry
        /\ FailsOf(Fails', e[1]) = MaxRetry
        /\ \A d \in Post : d[2] = e[2] /\ d # e => Satisfied(d[1], d[2], Fails')
        => /\ e[2] \in queue'
           /\ wave' = wave + 1
           /\ attempts'[e[2]] = 1

\* C2 (third part): a job that is Finished is not dispatched again in the run.
C2_Once ==
    \A v \in Jobs :
        Status[v] = Finished /\ mainpc' # "init" => attempts'[v] = attempts[v]

\* C2: the gate of a non-strict edge, the dispatch in the wave after the
\* predecessor's retries are exhausted, and no second dispatch after success.
C2_NonStrict == [](C2_NonStrictGate) /\ [][C2_NextWave /\ C2_Once]_vars

\* The successor of an exhausted predecessor ran once and finished
C2_Witness ==
    \E e \in Post :
        /\ NonStrict(e) /\ MaxRetry >= 1 /\ Exhausted(e[1])
        /\ Status[e[2]] = Finished /\ attempts[e[2]] = 1 /\ ran[e[2]] = "nil"

\* C3: Fails[j] <= MaxRetry in every state; a job in a run queue has
\* Fails[j] < MaxRetry; a job is dispatched at most MaxRetry times per run.
C3_RetryBound ==
    \A j \in Jobs :
        /\ FailsOf(Fails, j) <= MaxRetry
        /\ j \in queue => FailsOf(Fails, j) < MaxRetry
        /\ attempts[j] <= MaxRetry

\* A job has failed MaxRetry >= 2 times and was dispatched as many times
C3_Witness ==
    \E j \in Jobs : MaxRetry >= 2 /\ FailsOf(Fails, j) = MaxRetry /\ attempts[j] = MaxRetry

Pre(v) == {u \in Jobs : <<u, v>> \in Post}
Succ(u) == {v \in Jobs : <<u, v>> \in Post}

\* C4: a non-Dummy job whose persisted status was Finished when the run began
\* never has Executor.Run invoked in that run.
C4_FinishedNeverRerun ==
    \A j \in Jobs :
        Type[j] # DummyJob /\ startStatuses[j] = Finished
            => pc[j] # "exec" /\ ran[j] = "none"

\* C5: with a retry budget of at least one, Sched.Run returns nil only if
\* every job of the DAG is Finished when the wave loop ends.
C5_SuccessOnlyIfAllFinished ==
    MaxRetry >= 1 /\ mainpc = "done" /\ result = "nil"
        => \A j \in Jobs : Status[j] = Finished

\* C6: when the run began with a non-Dummy job c persisted as Started and its
\* (non-Dummy) predecessors persisted as Finished, Executor.Run is invoked for
\* none of them, no successor of c is dispatched, and Run returns an error.
C6_ResumeAfterCrash ==
    \A c \in Jobs :
        /\ MaxRetry >= 1
        /\ Pre(c) # {} /\ Succ(c) # {}
        /\ Type[c] # DummyJob /\ startStatuses[c] = Started
        /\ \A p \in Pre(c) : Type[p] # DummyJob /\ startStatuses[p] = Finished
        => /\ \A j \in Pre(c) \cup {c} : pc[j] # "exec" /\ ran[j] = "none"
           /\ \A v \in Succ(c) : attempts[v] = 0
           /\ (mainpc = "done" => result = "error")

\* A run that is a no-op: Executor.Run has been invoked for no job, the
\* persisted statuses are as they were when the run began, and Run, if it has
\* returned, returned nil
NoOpRun ==
    /\ \A j \in Jobs : pc[j] # "exec" /\ ran[j] = "none"
    /\ Statuses = startStatuses
    /\ (mainpc = "done" => result = "nil")

C8_LinearDummy ==
    /\ Post = Chain.Post /\ MaxRetry >= 1
    /\ \A j \in Jobs : Type[j] = DummyJob
    /\ ~resolveErr
    => /\ wave = 1 => queue = {"A"}
       /\ wave = 2 => queue = {"B"} /\ Status["A"] = Finished
       /\ wave = 3 /\ mainpc = "wave" => queue = {"C"} /\ Status["B"] = Finished
       /\ mainpc = "done" =>
            /\ wave = 3 /\ result = "nil"
            /\ \A j \in Jobs : Status[j] = Finished
            /\ \A j \in Jobs : Statuses[j] = Finished

\* C9: for every strict edge a -> b and MaxRetry >= 1, once a has failed
\* MaxRetry times b has never been dispatched and is NotStarted, a's persisted
\* status is Failed, and Sched.Run, when it returns, returns an error.
C9_StrictExhaustion ==
    \A e \in Post :
        Strict(e) /\ MaxRetry >= 1 /\ FailsOf(Fails, e[1]) >= MaxRetry
            => /\ attempts[e[2]] = 0 /\ pc[e[2]] = "idle"
               /\ Status[e[2]] = NotStarted
               /\ Statuses[e[1]] = Failed
               /\ (mainpc = "done" => result = "error")

\* Run has returned after the predecessor of a strict edge failed twice
C9_Witness ==
    \E e \in Post :
        /\ Strict(e) /\ MaxRetry = 2 /\ FailsOf(Fails, e[1]) = 2
        /\ mainpc = "done" /\ result = "error"

\* C10: after Executor.Run returned nil for a job its status is Finished, and
\* from the worker's SetStatus on (so before the barrier, which needs every
\* worker at its end) the tracker holds Finished; after it returned an error
\* the status is Failed and the tracker holds Failed.
C10_RecordAndPersist ==
    \A j \in Jobs :
        /\ ran[j] = "nil" => Status[j] = Finished
        /\ ran[j] = "nil" /\ pc[j] # "persist" => Statuses[j] = Finished
        /\ ran[j] = "error" /\ pc[j] = "persist" => Status[j] = Failed
        /\ ran[j] = "error" /\ pc[j] \in {"json2", "report2", "done"}
             => Status[j] = Failed /\ Statuses[j] = Failed

\* One worker of a wave recorded a success and another a failure, both are
\* at their end
C10_Witness ==
    \E j, k \in queue :
        /\ pc[j] = "done" /\ ran[j] = "nil" /\ Statuses[j] = Finished
        /\ pc[k] = "done" /\ ran[k] = "error" /\ Statuses[k] = Failed

\* The step is the end of a wave: the barrier, the bookkeeping and the next
\* genRunQueue
WaveEnds == mainpc = "wave" /\ (mainpc' = "done" \/ wave' = wave + 1)

\* C11 (states): while a job is in a run queue every earlier dispatch of it
\* failed and was counted (Fails = dispatches - 1, so Fails counts 1..k over k
\* failing waves); a Finished job outside the queue has no Fails entry; and
\* when Run returns after a job succeeded on a retry and no job is Failed, it
\* returns nil.
C11_Counts ==
    /\ \A j \in queue : FailsOf(Fails, j) = attempts[j] - 1
    /\ \A j \in Jobs \ queue : Status[j] = Finished => j \notin DOMAIN Fails
    /\ /\ mainpc = "done"
       /\ \E j \in Jobs : Status[j] = Finished /\ attempts[j] >= 2
       /\ \A i \in Jobs : Status[i] # Failed
       => result = "nil"

\* C11 (steps): at the end of a wave a failed job's count becomes its number
\* of dispatches and, below MaxRetry, the job is in the very next wave; a
\* Finished job's entry is gone.
C11_Retry ==
    WaveEnds =>
      \A j \in queue :
        /\ Status[j] = Failed =>
             /\ FailsOf(Fails', j) = attempts[j]
             /\ attempts[j] < MaxRetry =>
                  j \in queue' /\ wave' = wave + 1 /\ attempts'[j] = attempts[j] + 1
        /\ Status[j] = Finished => j \notin DOMAIN Fails'

\* C11: a job that fails k < MaxRetry times and then succeeds is dispatched in
\* k + 1 consecutive waves, Fails counts its failures and loses the entry on
\* success, and Run returns nil if no job is left Failed.
C11_RetryThenSucceed == [](C11_Counts) /\ [][C11_Retry]_vars

\* Run has returned nil after a job failed once and succeeded on its retry
C11_Witness ==
    /\ mainpc = "done" /\ result = "nil"
    /\ \E j \in Jobs : attempts[j] = 2 /\ ran[j] = "nil" /\ Status[j] = Finished

\* C14: if some job's Type has no registered executor, Run ends with an error
\* before any run queue exists: no job is dispatched, no job status changes
\* and nothing is written to the tracker or published as JobReport.
C14_Preflight ==
    (\E j \in Jobs : Type[j] \notin Registered)
        => /\ mainpc \in {"init", "done"}
           /\ (mainpc = "done" => result = "error")
           /\ queue = {} /\ wave = 0
           /\ \A j \in Jobs : attempts[j] = 0 /\ pc[j] = "idle" /\ ran[j] = "none"
           /\ Status = Fresh(Jobs)
           /\ Statuses = startStatuses
           /\ JobReport = Fresh(Jobs)
           /\ Fails = <<>>

\* Run has ended with an error on a DAG with an unregistered type, before any wave
C14_Witness ==
    /\ \E j \in Jobs : Type[j] \notin Registered
    /\ mainpc = "done" /\ result = "error" /\ wave = 0

\* C15 (states): a worker whose ResolveJob returned an error never reaches the
\* status check or Executor.Run in that wave, and once it has passed its
\* SetStatus the job is Failed in memory and in the tracker; the process does
\* not end because of it.
C15_FailedNotRun ==
    \A j \in Jobs :
        resolved[j] = "error"
            => /\ pc[j] \in {"failset", "json2", "report2", "done", "idle"}
               /\ pc[j] \in {"json2", "report2", "done"}
                    => Status[j] = Failed /\ Statuses[j] = Failed
               /\ pc[j] # "panic"

\* C15 (steps): the ResolveJob error leaves every other worker where it was;
\* at the end of the wave the job's fail count grows by exactly one, it is
\* dispatched again while below MaxRetry, and every other job of the wave is
\* counted on its own status.
C15_Bookkeeping ==
    /\ \A j \in Jobs :
         resolved[j] # "error" /\ resolved'[j] = "error"
            => /\ mainpc' = "wave" /\ queue' = queue
               /\ \A k \in Jobs \ {j} : pc'[k] = pc[k] /\ Status'[k] = Status[k]
    /\ WaveEnds =>
         \A j \in queue :
            resolved[j] = "error" =>
              /\ FailsOf(Fails', j) = FailsOf(Fails, j) + 1
              /\ FailsOf(Fails', j) < MaxRetry => j \in queue' /\ wave' = wave + 1
              /\ \A k \in queue \ {j} :
                   /\ Status[k] = Finished => k \notin DOMAIN Fails' /\ k \notin queue'
                   /\ Status[k] = Failed /\ resolved[k] = "ok"
                        => FailsOf(Fails', k) = FailsOf(Fails, k) + 1

\* C15: a ResolveJob error makes the job Failed and persisted, skips
\* Executor.Run for it in that wave, adds exactly one to its fail count, and
\* leaves the rest of the wave and the following waves to proceed.
C15_ResolveError == [](C15_FailedNotRun) /\ [][C15_Bookkeeping]_vars

\* A job whose ResolveJob failed in the first wave has been counted once and
\* is in the second wave next to nothing else, while another job of the first
\* wave finished
C15_Witness ==
    \E j, k \in Jobs :
        /\ j # k /\ wave = 2 /\ j \in queue /\ FailsOf(Fails, j) = 1
        /\ ran[j] = "none" /\ Statuses[j] = Failed
        /\ ran[k] = "nil" /\ Status[k] = Finished

\* A worker is past the point where its error, if it had one, is recorded
Recorded(j) == pc[j] \in {"json2", "report2", "done"}

\* The errors of ResolveJob and Executor.Run are converted into status Failed
\* of that job
C16_Converted ==
    \A j \in Jobs :
        /\ resolved[j] = "error" /\ Recorded(j) => Status[j] = Failed
        /\ resolved[j] = "ok" /\ ran[j] = "error" /\ Recorded(j) => Status[j] = Failed

\* C16 as stated: every error raised inside a wave worker (ResolveJob,
\* executor lookup, Tracker.GetStatus, Executor.Run) becomes status Failed of
\* that job only; the worker returns normally and the process goes on.
C16_WorkerErrorsContained ==
    /\ C16_Converted
    /\ mainpc # "panic"
    /\ \A j \in Jobs : pc[j] # "panic"

\* The process ends in a panic only from the worker of a job whose executor
\* is registered, at its Tracker.GetStatus call, after its ResolveJob succeeded
C16_PanicOnlyGetStatus ==
    /\ mainpc = "panic" <=> \E j \in Jobs : pc[j] = "panic"
    /\ \A j \in Jobs :
         pc[j] = "panic" => Type[j] \in Registered /\ resolved[j] = "ok" /\ j \in queue

\* The step in which the worker of j gets an error from ResolveJob or from
\* Executor.Run leaves the other workers, the other jobs and the main
\* goroutine as they were, and the worker goes on towards the barrier
C16_ErrorStep ==
    \A j \in Jobs :
        \/ pc[j] = "resolve" /\ resolved'[j] = "error"
        \/ pc[j] = "exec" /\ pc'[j] = "persist" /\ ran'[j] = "error"
        => /\ mainpc' = "wave" /\ queue' = queue
           /\ pc'[j] \in {"failset", "persist"}
           /\ \A k \in Jobs \ {j} : pc'[k] = pc[k] /\ Status'[k] = Status[k]
           /\ Statuses' = Statuses

\* The barrier is passed with workers that had errors: the loop goes on to the
\* next genRunQueue (another wave, or the return of Run with an error since a
\* failure was counted)
C16_LoopContinues ==
    mainpc = "wave" /\ mainpc' # "wave" /\ mainpc' # "init"
      /\ (\A j \in queue : pc[j] = "done")
      /\ (\E j \in queue : resolved[j] = "error" \/ (resolved[j] = "ok" /\ ran[j] = "error" /\ Status[j] = Failed))
      => mainpc' = "done" /\ result' = "error"

\* C16 as amended: an error of ResolveJob or of Executor.Run becomes status
\* Failed of that job only, the worker returns normally and the wave loop
\* continues; an error of Tracker.GetStatus (or a missing executor, which
\* checkDAG excludes) panics instead and ends the process.
C16_ResolveAndRunErrorsContained ==
    [](C16_Converted /\ C16_PanicOnlyGetStatus) /\ [][C16_ErrorStep /\ C16_LoopContinues]_vars

\* At the barrier of a wave one worker had a ResolveJob error and another an
\* Executor.Run error; both jobs are Failed and the main goroutine waits
C16_Witness ==
    /\ mainpc = "wave" /\ \A i \in queue : pc[i] = "done"
    /\ \E j, k \in queue :
         /\ resolved[j] = "error" /\ Status[j] = Failed
         /\ resolved[k] = "ok" /\ ran[k] = "error" /\ Status[k] = Failed

\* C18: InDegrees[v] >= 0 in every state; every edge u -> v has lowered
\* InDegrees[v] at most once in the run, however often u was dispatched; and
\* InDegrees[v] is the number of in-edges of v that have not yet done so.
C18_InDegrees ==
    /\ \A v \in Jobs : InDegrees[v] >= 0
    /\ \A e \in Post : decs[e] <= 1
    /\ \A v \in Jobs :
         InDegrees[v] = Cardinality({u \in Pre(v) : decs[<<u, v>>] = 0})

\* A predecessor that was dispatched in two waves has lowered its successor's
\* in-degree once, the successor having two in-edges
C18_Witness ==
    \E e \in Post :
        /\ attempts[e[1]] = 2 /\ decs[e] = 1
        /\ Cardinality(Pre(e[2])) = 2 /\ InDegrees[e[2]] = 0

\* All workers of the current wave are at their end: wg.Wait can return
AtBarrier == mainpc = "wave" /\ queue # {} /\ \A j \in queue : pc[j] = "done"

\* What the worker of j, run alone from start to end on the store S with the
\* outcomes its ResolveJob and Executor.Run calls had in this wave, leaves in
\* the store
SerialWorker(S, j) ==
    IF resolved[j] = "error" THEN SetStatus(S, j, Failed)
    ELSE IF Type[j] = DummyJob THEN S
    ELSE IF Skips(GetStatus(S, j)) THEN S
    ELSE SetStatus(SetStatus(S, j, Started), j, StatusAfterRun(ran[j] = "error"))

\* The workers of a wave run one after another in the order `order`
RECURSIVE SerialWave(_, _, _)
SerialWave(order, i, S) ==
    IF i > Len(order) THEN S
    ELSE SerialWave(order, i + 1, SerialWorker(S, order[i]))

\* C13: at the barrier of every wave, whatever the interleaving of its
\* workers was, the persisted statuses are those that some serial order of
\* the same workers with the same outcomes leaves, starting from the store as
\* it was when the wave began.
C13_Serializable ==
    AtBarrier => \E order \in Orders(queue) : Statuses = SerialWave(order, 1, waveStart)

\* The barrier of a wave in which two workers both invoked their executor, one
\* failing
C13_Witness ==
    /\ AtBarrier
    /\ \E j, k \in queue :
         /\ j # k /\ resolved[j] = "ok" /\ resolved[k] = "ok"
         /\ Statuses[j] = Finished /\ waveStart[j] # Finished /\ ran[j] = "nil"
         /\ Statuses[k] = Failed /\ ran[k] = "error"

\* C12: on the diamond, when B and C were executed in one wave and both
\* finished, the JobReport that ResolveJob(D) is about to read holds Finished
\* for B and for C, whatever the interleaving of the two workers was.
C12_FreshJobReport ==
    /\ Post = Diamond.Post /\ pc["D"] = "resolve"
    /\ attempts["B"] = 1 /\ ran["B"] = "nil"
    /\ attempts["C"] = 1 /\ ran["C"] = "nil"
    => JobReport["B"] = Finished /\ JobReport["C"] = Finished

\* C19 as stated: on every DAG, MaxRetry, persisted store and sequence of
\* outcomes, Sched.Run eventually returns.
C19_RunReturns == <>(mainpc = "done")

\* Every wave makes progress: each job of the queue is out of the next queue
\* or has its fail count increased
C19_Progress ==
    WaveEnds =>
      \A j \in queue : j \notin queue' \/ FailsOf(Fails', j) > FailsOf(Fails, j)

\* C19 as amended: every wave makes progress, and eventually the wave loop
\* generates an empty queue and Run returns, or a Tracker.GetStatus error has
\* ended the process in a panic.
C19_RunReturnsOrPanics ==
    <>(mainpc = "done" \/ mainpc = "panic") /\ [][C19_Progress]_vars

\* Run has returned after three waves, one of them a retry, on a store that
\* held Failed for a job
C19_Witness ==
    /\ mainpc = "done" /\ queue = {} /\ wave = 3
    /\ \E j \in Jobs : attempts[j] = 2
    /\ \E j \in Jobs : startStatuses[j] = Failed

\* C17 as stated: CmdExec returns a nil error iff the child exited with
\* status 0, and for every non-zero exit status a non-nil error that carries
\* that exit code (a call whose cmd.Wait itself failed is left aside).
C17_ErrorIffNonZeroExit ==
    (cmdpc = "returned" /\ childpc = "reaped" /\ wstatus.kind = "exited"
        /\ ret.err # WaitError)
        => /\ ret.err = Nil <=> wstatus.code = 0
           /\ wstatus.code # 0
                => ret.err # Nil /\ "code" \in DOMAIN ret.err /\ ret.err.code = wstatus.code

\* C17 as amended: when cmd.Wait reports how the child ended, CmdExec returns
\* a nil error and the exit status as its integer result (the exit code, 0 or
\* not, and -1 for a child killed by a signal); it returns a non-nil error,
\* with result 0, only when the pipes, the start or the wait itself failed,
\* and no error it returns carries an exit code.
C17_ExitStatusAsResult ==
    cmdpc = "returned"
        => /\ "code" \notin DOMAIN ret.err
           /\ childpc = "none" => ret = [code |-> 0, err |-> StartError]
           /\ childpc = "reaped" =>
                \/ ret = [code |-> 0, err |-> WaitError]
                \/ /\ ret.err = Nil
                   /\ wstatus.kind = "exited" => ret.code = wstatus.code
                   /\ wstatus.kind = "signaled" => ret.code = -1

\* CmdExec has reaped a child that exited with code 2 and has returned 2 with
\* a nil error
C17_Witness ==
    /\ cmdpc = "returned" /\ childpc = "reaped"
    /\ wstatus = [kind |-> "exited", code |-> 2]
    /\ ret = [code |-> 2, err |-> Nil]

\* The parent is blocked reading stream st: the pipe is empty and the child
\* still holds it open
ParentWaitsOn(st) ==
    /\ childpc = "running"
    /\ \/ st = "err" /\ cmdpc = "readerr" /\ errbuf = 0
       \/ st = "out" /\ cmdpc = "readout" /\ outbuf = 0

\* The child is blocked writing to stream st: its pipe is full
ChildBlockedOn(st) ==
    /\ childpc = "running" /\ prog # <<>> /\ Head(prog) = st
    /\ \/ st = "out" /\ outbuf = PipeCap
       \/ st = "err" /\ errbuf = PipeCap

\* C20: for every child that writes a finite amount to stdout and stderr in
\* any order and then exits, with pipes of finite capacity, the parent never
\* waits on one stream while the child is blocked writing to the other (so
\* CmdExec goes on to reap the child and return).
C20_NoPipeDeadlock ==
    \A a, b \in {"out", "err"} : a # b => ~(ParentWaitsOn(a) /\ ChildBlockedOn(b))

====
